---- MODULE Spec2Model ----
(***************************************************************************)
(* Model of mocha-web's pipeline coordinator, src/src/run-tests.ts:        *)
(* runTests (build, server, browser, completion race, teardown), the       *)
(* esbuild output-capture plugin that maintains buildFilesMap, the dev     *)
(* middleware that serves it, and the status object of the harness page.   *)
(*                                                                         *)
(* Node runs every callback to completion, so each action below is one     *)
(* callback or one continuation of runTests between two awaits.            *)
(***************************************************************************)
EXTENDS Integers, Naturals, Sequences, FiniteSets, TLC

\* ---------------------------------------------------------------- bounds
MaxBuilds  == 2   \* build completions of one run (watch mode rebuilds)
MaxContent == 2   \* distinct contents an output file can have
NumUnits   == 1   \* test units the harness runs
MaxFailed  == 1   \* 'fail' events the harness can emit
MaxIterate == 2   \* largest repeat count (options.iterate)
MaxSuiteTests == 2   \* most tests one suite holds before duplication
MaxMessages == 3     \* console messages the page emits
MaxDialogs == 2      \* native dialogs the page opens

\* ------------------------------------------------------------ vocabulary
OutputPaths  == {"/tests.js", "/tests.css"}
HarnessPath  == "/tests.html"
FaviconPath  == "/favicon.ico"
RequestPaths == OutputPaths \cup {HarnessPath, FaviconPath, "/asset.txt"}
MapIds       == 1 .. (MaxBuilds + 1)
EmptyMap     == << >>
NoError      == [kind |-> "none", n |-> 0]
Ok           == [kind |-> "ok", n |-> 0]
Err(k)       == [kind |-> k, n |-> 0]
NoResponse   == [path |-> "", status |-> 0, from |-> "none",
                 etag |-> [tag |-> "none", v |-> 0],
                 text |-> [kind |-> "none", v |-> 0],
                 build |-> 0, mapBuilds |-> {}, mapHasHarness |-> FALSE]

\* The sets of files one build can hand to its onEnd callbacks: any subset of
\* the output paths, each file with some content.
OutputSets ==
  UNION { [S -> 1 .. MaxContent] : S \in SUBSET OutputPaths }

VARIABLES
  keepOpen,         \* options.keepOpen
  pc,               \* where runTests is suspended
  outcome,          \* how runTests settles: Ok, or the error thrown
  closables,        \* the closables array
  registered,       \* history: every teardown action ever pushed
  closeCalls,       \* history: how often each teardown action was invoked
  server,           \* "none" | "listening" | "closing" | "closed"
  browser,          \* "none" | "launched" | "closing" | "closed"
  conn,             \* the page holds a connection to the server
  maps,             \* heap of Map objects: id -> contents
  buildFilesMap,    \* the Map object runTests/the plugin refer to
  devMap,           \* the Map object the middleware closed over (0: none)
  buildCount,       \* history: build completions so far
  lastGood,         \* history: number of the last completion with files and no errors
  firstBuildFailed, \* history: the first completion reported errors
  watching,         \* esbuild context is in watch mode
  failsOnPageError, \* "unset" | "pending" | "pageerror" | "crash"
  fired,            \* page.once listeners that have already run
  fatalInRace,      \* history: first fatal signal fired while racing
  page,             \* "none" | "harness" | "notfound"
  mochaStatus,      \* window.mochaStatus of the harness page
  observedFailed,   \* history: value read by page.evaluate, -1 if none
  lastResponse,     \* the latest HTTP response of the server
  dupSuite,         \* mocha.suite as the test bundle registered it
  dupIterate,       \* the page's const iterate
  dupResult,        \* mocha.suite after duplicateTests
  dupDone,          \* duplicateTests has run
  workDirFiles,     \* URL paths at which the working directory has a file
  mochaFiles,       \* paths at which the mocha package has a file
  routed,           \* which handler of the app answered the latest request
  relayHooked,      \* the console relay is attached to the page and enabled
  consoleEmitted,   \* console messages the page has emitted, in order
  consoleQueue,     \* messages the relay has received and not yet written
  consoleWritten,   \* messages written to the coordinator's output, in order
  harnessCalls,     \* the calls the page's DOMContentLoaded handler made, in order
  dialogHandler,    \* the page has the 'dialog' listener of line 90
  dialog,           \* "open" while a native dialog blocks the page, else "none"
  dialogsOpened,    \* how many dialogs the page has opened
  dialogsDismissed  \* how many of them dialog.dismiss() has closed

vars == << keepOpen, pc, outcome, closables, registered, closeCalls, server,
           browser, conn, maps, buildFilesMap, devMap, buildCount, lastGood,
           firstBuildFailed, watching,
           failsOnPageError, fired, fatalInRace, page, mochaStatus,
           observedFailed, lastResponse,
           dupSuite, dupIterate, dupResult, dupDone,
           workDirFiles, mochaFiles, routed,
           relayHooked, consoleEmitted, consoleQueue, consoleWritten,
           harnessCalls, dialogHandler, dialog, dialogsOpened, dialogsDismissed >>

dupVars    == << dupSuite, dupIterate, dupResult, dupDone >>
staticVars == << workDirFiles, mochaFiles, routed >>
consoleVars == << consoleEmitted, consoleQueue, consoleWritten >>
dialogVars == << dialog, dialogsOpened, dialogsDismissed >>
quietVars  == << dupVars, staticVars, consoleVars, dialogVars >>
auxVars    == << quietVars, relayHooked, dialogHandler >>
runVars    == << pc, outcome >>
closeVars  == << closables, registered, closeCalls >>
resVars    == << server, browser, conn >>
buildVars  == << maps, buildFilesMap, buildCount, lastGood, firstBuildFailed >>
pageVars   == << failsOnPageError, fired, fatalInRace, page, mochaStatus,
                 observedFailed, harnessCalls >>

\* ------------------------------------------------------- map operations
MapHas(m, p)    == p \in DOMAIN m
MapSet(m, p, r) == [q \in (DOMAIN m) \cup {p} |-> IF q = p THEN r ELSE m[q]]

\* esbuild's OutputFile.hash is a hash of the file's contents.
Hash(text) == [tag |-> "xxhash", v |-> text.v]

\* An esbuild OutputFile with contents c, as produced by build number b.
OutputFile(c, b) ==
  LET text == [kind |-> "output", v |-> c]
  IN  [text |-> text, hash |-> Hash(text), build |-> b]

\* createTestsHTML: with the run's options fixed, the page text depends only
\* on cssFileName (the stylesheet link of line 213).
createTestsHTML(cssFileName) ==
  [kind |-> "html", v |-> IF cssFileName = "tests.css" THEN 1 ELSE 0]

\* The record stored under /tests.html (lines 144-149).
HarnessRecord_AlwaysCss(m, b) ==
  [text  |-> createTestsHTML("tests.css"),
   hash  |-> [tag |-> "final-html", v |-> 0],
   build |-> b]

HarnessRecord(m, b) ==
  [text  |-> createTestsHTML(IF MapHas(m, "/tests.css") THEN "tests.css" ELSE "none"),
   hash  |-> [tag |-> "final-html", v |-> 0],
   build |-> b]

\* buildFilesMap.set for every output file (lines 131-133), on top of m.
SetOutputs(m, out, b) ==
  [q \in (DOMAIN m) \cup (DOMAIN out) |->
     IF q \in DOMAIN out THEN OutputFile(out[q], b) ELSE m[q]]

\* The guard of the onEnd callback (line 129).
CaptureGuard(out, errors) == DOMAIN out # {} /\ ~errors

\* The onEnd callback of createOutputCapturePlugin (lines 128-150) applied to
\* map contents m: build number b handed it the files out and the flag
\* errors (errors.length > 0).  The callback has no await: it runs whole.
Capture_IgnoresErrors(m, out, errors, b) ==
  IF DOMAIN out # {}
    THEN LET filled == SetOutputs(EmptyMap, out, b)
         IN  MapSet(filled, HarnessPath, HarnessRecord(filled, b))
    ELSE m

Capture_AlwaysHarness(m, out, errors, b) ==
  LET filled == IF CaptureGuard(out, errors) THEN SetOutputs(EmptyMap, out, b) ELSE m
  IN  MapSet(filled, HarnessPath, HarnessRecord(filled, b))

Capture_NoClear(m, out, errors, b) ==
  IF CaptureGuard(out, errors)
    THEN LET filled == SetOutputs(m, out, b)
         IN  MapSet(filled, HarnessPath, HarnessRecord(filled, b))
    ELSE m

Capture(m, out, errors, b) ==
  IF CaptureGuard(out, errors)
    THEN LET filled == SetOutputs(EmptyMap, out, b)   \* clear(), then set()
         IN  MapSet(filled, HarnessPath, HarnessRecord(filled, b))
    ELSE m

\* The callback's effect on the heap: it writes through the reference ref it
\* closed over (the const buildFilesMap of line 36) and rebinds nothing.
OnEnd_Swap(ms, ref, out, errors, b) ==
  IF CaptureGuard(out, errors) /\ ref + 1 \in MapIds
    THEN [maps |-> [ms EXCEPT ![ref + 1] = Capture(EmptyMap, out, errors, b)],
          ref  |-> ref + 1]
    ELSE [maps |-> ms, ref |-> ref]

OnEnd(ms, ref, out, errors, b) ==
  [maps |-> [ms EXCEPT ![ref] = Capture(ms[ref], out, errors, b)],
   ref  |-> ref]

\* createDevMiddleware's handler (lines 176-189) on map contents m.
Serve(m, path) ==
  IF MapHas(m, path)
    THEN [path |-> path, status |-> 200, from |-> "map",
          etag |-> m[path].hash, text |-> m[path].text, build |-> m[path].build,
          mapBuilds |-> { m[q].build : q \in DOMAIN m },
          mapHasHarness |-> MapHas(m, HarnessPath)]
    ELSE IF path = FaviconPath
      THEN [NoResponse EXCEPT !.path = path, !.status = 204, !.from = "favicon"]
      ELSE [NoResponse EXCEPT !.path = path, !.from = "next"]

\* ------------------------------------------------------- duplicateTests
\* A suite is [tests |-> sequence of tests, suites |-> sequence of suites].
\* new Array(iterations).fill(t), line 222.
Fill(t, n) == [i \in 1 .. n |-> t]

\* tests.flatMap(f), lines 221-223: the concatenation of f's results.
RECURSIVE FlatMapFill(_, _)
FlatMapFill(tests, n) ==
  IF tests = << >> THEN << >>
  ELSE Fill(Head(tests), n) \o FlatMapFill(Tail(tests), n)

\* duplicateTests (lines 220-227).
RECURSIVE duplicateTests_NoRecursion(_, _)
duplicateTests_NoRecursion(suite, iterations) ==
  [tests |-> FlatMapFill(suite.tests, iterations), suites |-> suite.suites]

RECURSIVE duplicateTests(_, _)
duplicateTests(suite, iterations) ==
  [tests  |-> FlatMapFill(suite.tests, iterations),
   suites |-> [i \in DOMAIN suite.suites |->
                 duplicateTests(suite.suites[i], iterations)]]

\* The suite trees the check draws from: a root suite, its child suites and
\* their child suites, each with up to MaxSuiteTests distinct tests.
TestLists  == { [i \in 1 .. k |-> i] : k \in 0 .. MaxSuiteTests }
UpToTwo(S) == {<< >>} \cup { << a >> : a \in S } \cup { << a, b >> : a \in S, b \in S }
LeafSuites == [tests : TestLists, suites : {<< >>}]
MidSuites  == [tests : TestLists, suites : UpToTwo(LeafSuites)]
RootSuites == [tests : TestLists, suites : UpToTwo(MidSuites)]
EmptySuite == [tests |-> << >>, suites |-> << >>]

\* ----------------------------------------------------------- the app
\* Paths under the "/mocha" mount of line 73 and the path express.static is
\* handed for each (the mount prefix stripped).
MountPaths  == {"/mocha/mocha.js", "/mocha/mocha.css"}
MochaAssets == {"/mocha.js", "/mocha.css"}
MountRel(p) == IF p = "/mocha/mocha.js" THEN "/mocha.js" ELSE "/mocha.css"
AppPaths    == RequestPaths \cup MountPaths
WorkDirCandidates == {"/asset.txt", "/tests.js", "/favicon.ico", "/mocha/mocha.js"}
NoRoute     == [path |-> "", from |-> "none"]

\* The app's middleware chain (lines 72-74) for a GET of path: the dev
\* middleware; on next() express.static of the mocha package for paths under
\* the mount; when that has no such file, express.static of the working
\* directory; when that has none either, express answers 404.
Route_WorkDirFirst(m, wd, md, path) ==
  LET r == Serve(m, path)
  IN  IF r.from # "next" THEN r.from
      ELSE IF path \in wd THEN "workdir"
      ELSE IF path \in MountPaths /\ MountRel(path) \in md THEN "mocha"
      ELSE "notfound"

Route(m, wd, md, path) ==
  LET r == Serve(m, path)
  IN  IF r.from # "next" THEN r.from
      ELSE IF path \in MountPaths /\ MountRel(path) \in md THEN "mocha"
      ELSE IF path \in wd THEN "workdir"
      ELSE "notfound"

\* ------------------------------------------------------------- runTests
\* The page-side state, idle while the coordinator alone is followed.
DupIdle ==
  /\ dupSuite = EmptySuite
  /\ dupIterate = 1
  /\ dupResult = EmptySuite
  /\ dupDone = FALSE

StaticIdle ==
  /\ workDirFiles = {}
  /\ mochaFiles = {}
  /\ routed = NoRoute

ConsoleIdle ==
  /\ relayHooked = FALSE
  /\ consoleEmitted = << >>
  /\ consoleQueue = << >>
  /\ consoleWritten = << >>

DialogIdle ==
  /\ dialogHandler = FALSE
  /\ dialog = "none"
  /\ dialogsOpened = 0
  /\ dialogsDismissed = 0

AuxIdle == DupIdle /\ StaticIdle /\ ConsoleIdle /\ DialogIdle

RunInit ==
  /\ keepOpen \in BOOLEAN
  /\ pc = "build"
  /\ outcome = NoError
  /\ closables = << >>
  /\ registered = {}
  /\ closeCalls = [c \in {"server", "browser"} |-> 0]
  /\ server = "none"
  /\ browser = "none"
  /\ conn = FALSE
  /\ maps = [i \in MapIds |-> EmptyMap]
  /\ buildFilesMap = 1
  /\ devMap = 0
  /\ buildCount = 0
  /\ lastGood = 0
  /\ firstBuildFailed = FALSE
  /\ watching = FALSE
  /\ failsOnPageError = "unset"
  /\ fired = {}
  /\ fatalInRace = "none"
  /\ page = "none"
  /\ mochaStatus = [completed |-> 0, failed |-> 0, finished |-> FALSE]
  /\ observedFailed = -1
  /\ lastResponse = NoResponse
  /\ harnessCalls = << >>

Init == RunInit /\ AuxIdle

\* An exception inside the try block: control passes to the finally block.
Throw_NoFinally(e) == pc' = "settled" /\ outcome' = e

Throw(e) == pc' = "finally" /\ outcome' = e

\* One build completion: every onEnd callback runs (capture-output first,
\* then on-build-end), lines 56-60.
BuildCompletes(out, errors) ==
  LET b == buildCount + 1
      r == OnEnd(maps, buildFilesMap, out, errors, b)
  IN  /\ maps' = r.maps
      /\ buildFilesMap' = r.ref
      /\ buildCount' = b
      /\ lastGood' = IF ~errors /\ DOMAIN out # {} THEN b ELSE lastGood
      /\ firstBuildFailed' = IF buildCount = 0 THEN errors ELSE firstBuildFailed

\* Whether esbuild.build rejects (line 68): it does when the build has errors.
BuildRejects_Never(errors) == FALSE

BuildRejects(errors) == errors

\* await esbuild.build(combinedConfig), line 68.
BuildOnce ==
  /\ ~keepOpen /\ pc = "build"
  /\ \E out \in OutputSets, errors \in BOOLEAN :
       /\ BuildCompletes(out, errors)
       /\ IF BuildRejects(errors) THEN Throw(Err("BuildError"))
                                  ELSE pc' = "listen" /\ outcome' = outcome
  /\ UNCHANGED << keepOpen, auxVars, closeVars, resVars, devMap, watching, pageVars, lastResponse >>

\* captureBuildEnd (lines 156-163): the plugin's onEnd callback calls resolve
\* on every completion, whatever the build reports.
OnBuildEndResolves_OnlyOnSuccess(errors) == ~errors

OnBuildEndResolves(errors) == TRUE

\* esbuild.context + buildContext.watch(), lines 64-65.
WatchStart ==
  /\ keepOpen /\ pc = "build"
  /\ watching' = TRUE
  /\ pc' = "awaitBuildEnd"
  /\ UNCHANGED << keepOpen, auxVars, outcome, closeVars, resVars, buildVars, devMap, pageVars,
                  lastResponse >>

\* A build of the watch completes; the first one resolves onBuildEnd and so
\* resumes runTests at line 66 (later resolve calls are no-ops).
BuildEnd ==
  /\ watching /\ buildCount < MaxBuilds
  /\ \E out \in OutputSets, errors \in BOOLEAN :
       /\ BuildCompletes(out, errors)
       /\ pc' = IF pc = "awaitBuildEnd" /\ OnBuildEndResolves(errors) THEN "listen" ELSE pc
  /\ UNCHANGED << keepOpen, auxVars, outcome, closeVars, resVars, devMap, watching, pageVars,
                  lastResponse >>

\* Lines 71-81: the app is created over buildFilesMap, the server binds.
Listen ==
  /\ pc = "listen"
  /\ devMap' = buildFilesMap
  /\ \/ /\ server' = "listening"
        /\ closables' = Append(closables, "server")
        /\ registered' = registered \cup {"server"}
        /\ pc' = "launch"
        /\ UNCHANGED outcome
     \/ /\ Throw(Err("BindError"))
        /\ UNCHANGED << server, closables, registered >>
  /\ UNCHANGED << keepOpen, auxVars, closeCalls, browser, conn, buildVars, watching, pageVars,
                  lastResponse >>

\* Lines 83-84.
Launch ==
  /\ pc = "launch"
  /\ \/ /\ browser' = "launched"
        /\ closables' = Append(closables, "browser")
        /\ registered' = registered \cup {"browser"}
        /\ pc' = "newContext"
        /\ UNCHANGED outcome
     \/ /\ Throw(Err("LaunchError"))
        /\ UNCHANGED << browser, closables, registered >>
  /\ UNCHANGED << keepOpen, auxVars, closeCalls, server, conn, buildVars, devMap, watching,
                  pageVars, lastResponse >>

\* Line 85.
NewContext ==
  /\ pc = "newContext"
  /\ \/ pc' = "newPage" /\ UNCHANGED outcome
     \/ Throw(Err("ContextError"))
  /\ UNCHANGED << keepOpen, auxVars, closeVars, resVars, buildVars, devMap, watching, pageVars,
                  lastResponse >>

\* The DOMContentLoaded handler of the harness page (lines 247-254), as the
\* calls it makes in order: duplicateTests, then mocha.run(), then the three
\* .on(...) calls chained on the runner that run() returned.  The handler is
\* one synchronous function; mocha emits the runner's events from later
\* tasks, after the handler has returned.
HandlerCalls_ListenersFirst ==
  << "duplicateTests", "on:test end", "on:fail", "on:end", "run" >>

HandlerCalls ==
  << "duplicateTests", "run", "on:test end", "on:fail", "on:end" >>

Called(c) == \E i \in 1 .. Len(harnessCalls) : harnessCalls[i] = c

\* Lines 86-105: the page is created, the listeners are attached and the
\* navigation is started, all in one continuation.
NewPage ==
  /\ pc = "newPage"
  /\ \/ /\ pc' = "goto"
        /\ relayHooked' = TRUE
        /\ dialogHandler' = TRUE
        /\ failsOnPageError' = "pending"
        /\ UNCHANGED outcome
     \/ /\ Throw(Err("NewPageError"))
        /\ UNCHANGED << failsOnPageError, relayHooked, dialogHandler >>
  /\ UNCHANGED << keepOpen, quietVars, closeVars, resVars, buildVars, devMap, watching, fired,
                  fatalInRace, page, mochaStatus, observedFailed, lastResponse, harnessCalls >>

\* page.goto resolves (line 105): the page has requested /tests.html from the
\* server and loaded what the server answered.
GotoResolves_SkipsRaceInWatch ==
  /\ pc = "goto" /\ server = "listening" /\ browser = "launched"
  /\ LET resp == Serve(maps[devMap], HarnessPath)
     IN  /\ lastResponse' = resp
         /\ page' = IF resp.status = 200 THEN "harness" ELSE "notfound"
         /\ harnessCalls' = IF resp.status = 200 THEN HandlerCalls ELSE << >>
  /\ conn' = TRUE
  /\ pc' = IF keepOpen THEN "finally" ELSE "waitFinished"
  /\ outcome' = IF keepOpen THEN Ok ELSE outcome
  /\ UNCHANGED << keepOpen, auxVars, closeVars, server, browser, buildVars, devMap,
                  watching, failsOnPageError, fired, fatalInRace, mochaStatus,
                  observedFailed >>

GotoResolves ==
  /\ pc = "goto" /\ server = "listening" /\ browser = "launched"
  /\ LET resp == Serve(maps[devMap], HarnessPath)
     IN  /\ lastResponse' = resp
         /\ page' = IF resp.status = 200 THEN "harness" ELSE "notfound"
         /\ harnessCalls' = IF resp.status = 200 THEN HandlerCalls ELSE << >>
  /\ conn' = TRUE
  /\ pc' = "waitFinished"
  /\ UNCHANGED << keepOpen, auxVars, outcome, closeVars, server, browser, buildVars, devMap,
                  watching, failsOnPageError, fired, fatalInRace, mochaStatus,
                  observedFailed >>

\* page.goto rejects (navigation error).
GotoRejects ==
  /\ pc = "goto"
  /\ Throw(Err("NavigationError"))
  /\ UNCHANGED << keepOpen, auxVars, closeVars, resVars, buildVars, devMap, watching, pageVars,
                  lastResponse >>

\* The awaits of runTests that are a Promise.race with failsOnPageError:
\* line 105 (pc "goto") and line 107 (pc "waitFinished", "evaluate").
RaceStates == {"goto", "waitFinished", "evaluate"}

RacesFatal_GotoOnly(p) == p = "goto"

RacesFatal(p) == p \in RaceStates

\* A 'pageerror' or 'crash' event of the page (lines 94-103).  Each listener
\* is a once-listener; reject settles failsOnPageError only the first time.
Fatal_NoUnhook(kind) ==
  /\ failsOnPageError # "unset" /\ browser = "launched"
  /\ kind \notin fired
  /\ fired' = fired \cup {kind}
  /\ failsOnPageError' = IF failsOnPageError = "pending" THEN kind ELSE failsOnPageError
  /\ fatalInRace' = IF fatalInRace = "none" /\ pc \in RaceStates THEN kind ELSE fatalInRace
  /\ IF failsOnPageError = "pending" /\ RacesFatal(pc)
       THEN Throw(Err(kind))
       ELSE UNCHANGED runVars
  /\ page' = IF kind = "crash" THEN "crashed" ELSE page
  /\ UNCHANGED << keepOpen, auxVars, closeVars, resVars, buildVars, devMap, watching, mochaStatus,
                  observedFailed, lastResponse, harnessCalls >>

Fatal(kind) ==
  /\ failsOnPageError # "unset" /\ browser = "launched"
  /\ kind \notin fired
  /\ fired' = fired \cup {kind}
  /\ relayHooked' = FALSE
  /\ failsOnPageError' = IF failsOnPageError = "pending" THEN kind ELSE failsOnPageError
  /\ fatalInRace' = IF fatalInRace = "none" /\ pc \in RaceStates THEN kind ELSE fatalInRace
  /\ IF failsOnPageError = "pending" /\ RacesFatal(pc)
       THEN Throw(Err(kind))
       ELSE UNCHANGED runVars
  /\ page' = IF kind = "crash" THEN "crashed" ELSE page
  /\ UNCHANGED << keepOpen, quietVars, dialogHandler, closeVars, resVars, buildVars, devMap,
                  watching, mochaStatus, observedFailed, lastResponse, harnessCalls >>

PageError == Fatal("pageerror")
Crash     == Fatal("crash")

\* The harness page's listeners (lines 251-253), while mocha runs.
HarnessRunning ==
  /\ page = "harness" /\ browser = "launched" /\ ~mochaStatus.finished
  /\ Called("run")
  /\ dialog # "open"        \* an open native dialog blocks the page's script

\* What a runner event does to the status: its listener's effect if the
\* handler attached one for the event, nothing otherwise.
Emit(event, after) == IF Called(event) THEN after ELSE mochaStatus

HarnessTestEnd ==
  /\ HarnessRunning /\ mochaStatus.completed < NumUnits
  /\ mochaStatus' = Emit("on:test end", [mochaStatus EXCEPT !.completed = @ + 1])
  /\ UNCHANGED << keepOpen, auxVars, runVars, closeVars, resVars, buildVars, devMap, watching,
                  failsOnPageError, fired, fatalInRace, page, observedFailed, lastResponse, harnessCalls >>

HarnessFail ==
  /\ HarnessRunning /\ mochaStatus.failed < MaxFailed
  /\ mochaStatus' = Emit("on:fail", [mochaStatus EXCEPT !.failed = @ + 1])
  /\ UNCHANGED << keepOpen, auxVars, runVars, closeVars, resVars, buildVars, devMap, watching,
                  failsOnPageError, fired, fatalInRace, page, observedFailed, lastResponse, harnessCalls >>

HarnessEnd ==
  /\ HarnessRunning
  /\ mochaStatus' = Emit("on:end", [mochaStatus EXCEPT !.finished = TRUE])
  /\ UNCHANGED << keepOpen, auxVars, runVars, closeVars, resVars, buildVars, devMap, watching,
                  failsOnPageError, fired, fatalInRace, page, observedFailed, lastResponse, harnessCalls >>

\* page.waitForFunction("mochaStatus.finished") resolves (line 193).
WaitForFunctionResolves_NoWait ==
  /\ pc = "waitFinished" /\ page = "harness" /\ browser = "launched"
  /\ pc' = "evaluate"
  /\ UNCHANGED << keepOpen, auxVars, outcome, closeVars, resVars, buildVars, devMap, watching,
                  pageVars, lastResponse >>

WaitForFunctionResolves ==
  /\ pc = "waitFinished" /\ page = "harness" /\ browser = "launched"
  /\ mochaStatus.finished
  /\ pc' = "evaluate"
  /\ UNCHANGED << keepOpen, auxVars, outcome, closeVars, resVars, buildVars, devMap, watching,
                  pageVars, lastResponse >>

\* waitForFunction is given timeout: 0 (line 193), so it never rejects for
\* having waited.
WaitForFunctionRejects_Timeout ==
  /\ pc = "waitFinished" /\ page \in {"harness", "notfound"}
  /\ Throw(Err("WaitError"))
  /\ UNCHANGED << keepOpen, auxVars, closeVars, resVars, buildVars, devMap, watching, pageVars,
                  lastResponse >>

\* On a page without the harness the predicate throws (mochaStatus is not
\* defined) and waitForFunction rejects.
WaitForFunctionRejects ==
  /\ pc = "waitFinished" /\ page = "notfound"
  /\ Throw(Err("WaitError"))
  /\ UNCHANGED << keepOpen, auxVars, closeVars, resVars, buildVars, devMap, watching, pageVars,
                  lastResponse >>

\* if (failedCount), line 109.
FailedCountThrows_MoreThanOne(n) == n > 1

FailedCountThrows(n) == n # 0

\* page.evaluate("mochaStatus.failed") resolves (line 194) and runTests goes on
\* to lines 109-111.
Evaluate ==
  /\ pc = "evaluate" /\ page = "harness" /\ browser = "launched"
  /\ observedFailed' = mochaStatus.failed
  /\ IF FailedCountThrows(mochaStatus.failed)
       THEN Throw([kind |-> "TestsFailed", n |-> mochaStatus.failed])
       ELSE pc' = "finally" /\ outcome' = Ok
  /\ UNCHANGED << keepOpen, auxVars, closeVars, resVars, buildVars, devMap, watching,
                  failsOnPageError, fired, fatalInRace, page, mochaStatus, lastResponse, harnessCalls >>

\* The teardown actions the finally block invokes (lines 113-114).
ToClose_FirstOnly(keep, cl) == IF keep \/ cl = << >> THEN << >> ELSE << Head(cl) >>

ToClose(keep, cl) == IF keep THEN << >> ELSE cl

Invoked(cl) == { cl[i] : i \in DOMAIN cl }
Count(cl, c) == Cardinality({ i \in DOMAIN cl : cl[i] = c })

\* The finally block up to its await: closables.map(close => close()) starts
\* every teardown action before anything is awaited.
Finally_ClearsInWatch ==
  /\ pc = "finally"
  /\ LET inv == ToClose(keepOpen, closables)
     IN  /\ closeCalls' = [c \in DOMAIN closeCalls |-> closeCalls[c] + Count(inv, c)]
         /\ server'  = IF "server"  \in Invoked(inv) THEN "closing" ELSE server
         /\ browser' = IF "browser" \in Invoked(inv) THEN "closing" ELSE browser
  /\ pc' = IF keepOpen THEN "settled" ELSE "teardown"
  /\ closables' = IF keepOpen THEN << >> ELSE closables
  /\ UNCHANGED << keepOpen, auxVars, outcome, registered, conn, buildVars, devMap,
                  watching, pageVars, lastResponse >>

Finally ==
  /\ pc = "finally"
  /\ LET inv == ToClose(keepOpen, closables)
     IN  /\ closeCalls' = [c \in DOMAIN closeCalls |-> closeCalls[c] + Count(inv, c)]
         /\ server'  = IF "server"  \in Invoked(inv) THEN "closing" ELSE server
         /\ browser' = IF "browser" \in Invoked(inv) THEN "closing" ELSE browser
  /\ pc' = IF keepOpen THEN "settled" ELSE "teardown"
  /\ UNCHANGED << keepOpen, auxVars, outcome, closables, registered, conn, buildVars, devMap,
                  watching, pageVars, lastResponse >>

\* The server emits 'close': it has stopped listening and no connection is left.
ServerCloseEvent ==
  /\ server = "closing" /\ ~conn
  /\ server' = "closed"
  /\ UNCHANGED << keepOpen, auxVars, runVars, closeVars, browser, conn, buildVars, devMap,
                  watching, pageVars, lastResponse >>

\* browser.close() completes: the process is gone and with it its connections.
BrowserCloseDone ==
  /\ browser = "closing"
  /\ browser' = "closed"
  /\ conn' = FALSE
  /\ UNCHANGED << keepOpen, auxVars, runVars, closeVars, server, buildVars, devMap, watching,
                  pageVars, lastResponse >>

\* When the promise of a teardown action is resolved: the server's after the
\* 'close' event (line 79), the browser's when browser.close() has completed.
Resolved(c) == IF c = "server" THEN server = "closed" ELSE browser = "closed"

\* Promise.all resolves, closables.length = 0 (line 115), runTests settles.
TeardownDone ==
  /\ pc = "teardown"
  /\ \A c \in Invoked(closables) : Resolved(c)
  /\ closables' = << >>
  /\ pc' = "settled"
  /\ UNCHANGED << keepOpen, auxVars, outcome, registered, closeCalls, resVars, buildVars, devMap,
                  watching, pageVars, lastResponse >>

\* Any client's GET while the server is listening.
HttpRequest ==
  /\ server = "listening"
  /\ \E p \in RequestPaths : lastResponse' = Serve(maps[devMap], p)
  /\ UNCHANGED << keepOpen, auxVars, runVars, closeVars, resVars, buildVars, devMap, watching,
                  pageVars >>

Next ==
  \/ BuildOnce \/ WatchStart \/ BuildEnd
  \/ Listen \/ Launch \/ NewContext \/ NewPage
  \/ GotoResolves \/ GotoRejects
  \/ PageError \/ Crash
  \/ HarnessTestEnd \/ HarnessFail \/ HarnessEnd
  \/ WaitForFunctionResolves \/ WaitForFunctionRejects \/ Evaluate
  \/ Finally \/ ServerCloseEvent \/ BrowserCloseDone \/ TeardownDone
  \/ HttpRequest

Spec == Init /\ [][Next]_vars

\* The one-shot run alone (keepOpen false): no watch, one build.
OneShotInit == Init /\ ~keepOpen

OneShotNext ==
  \/ BuildOnce
  \/ Listen \/ Launch \/ NewContext \/ NewPage
  \/ GotoResolves \/ GotoRejects
  \/ PageError \/ Crash
  \/ HarnessTestEnd \/ HarnessFail \/ HarnessEnd
  \/ WaitForFunctionResolves \/ WaitForFunctionRejects \/ Evaluate
  \/ Finally \/ ServerCloseEvent \/ BrowserCloseDone \/ TeardownDone
  \/ HttpRequest

\* Fairness: the event loop runs a ready continuation, browser.close()
\* completes, and the server emits 'close' once its connections are gone.
OneShotLive ==
  /\ OneShotInit /\ [][OneShotNext]_vars
  /\ WF_vars(Finally) /\ WF_vars(ServerCloseEvent)
  /\ WF_vars(BrowserCloseDone) /\ WF_vars(TeardownDone)

\* The one-shot run under the fairness of the driver as well: a wait whose
\* predicate has become true, or throws, is resolved or rejected, and the
\* evaluation that follows is answered.
WaitLive ==
  /\ OneShotInit /\ [][OneShotNext]_vars
  /\ WF_vars(Finally) /\ WF_vars(ServerCloseEvent)
  /\ WF_vars(BrowserCloseDone) /\ WF_vars(TeardownDone)
  /\ WF_vars(WaitForFunctionResolves) /\ WF_vars(WaitForFunctionRejects)
  /\ WF_vars(Evaluate)

\* The console relay, hookPageConsole(page) of line 88.  The page emits a
\* message once it exists and is being navigated; an enabled relay receives
\* every message and writes them to the output one at a time, oldest first.
ConsoleEmit ==
  /\ failsOnPageError # "unset" /\ browser = "launched" /\ page # "crashed"
  /\ Len(consoleEmitted) < MaxMessages
  /\ LET m == Len(consoleEmitted) + 1
     IN  /\ consoleEmitted' = Append(consoleEmitted, m)
         /\ consoleQueue' = IF relayHooked THEN Append(consoleQueue, m) ELSE consoleQueue
  /\ UNCHANGED << keepOpen, runVars, closeVars, resVars, buildVars, devMap, watching,
                  pageVars, lastResponse, dupVars, staticVars, relayHooked,
                  dialogVars, dialogHandler,
                  consoleWritten >>

RelayWrite ==
  /\ relayHooked /\ consoleQueue # << >>
  /\ consoleWritten' = Append(consoleWritten, Head(consoleQueue))
  /\ consoleQueue' = Tail(consoleQueue)
  /\ UNCHANGED << keepOpen, runVars, closeVars, resVars, buildVars, devMap, watching,
                  pageVars, lastResponse, dupVars, staticVars, relayHooked,
                  dialogVars, dialogHandler,
                  consoleEmitted >>

\* The one-shot run with the page's console attached.
ConsoleNext ==
  \/ BuildOnce
  \/ Listen \/ Launch \/ NewContext \/ NewPage
  \/ GotoResolves \/ GotoRejects
  \/ PageError \/ Crash
  \/ HarnessTestEnd \/ HarnessFail \/ HarnessEnd
  \/ WaitForFunctionResolves \/ WaitForFunctionRejects \/ Evaluate
  \/ Finally \/ ServerCloseEvent \/ BrowserCloseDone \/ TeardownDone
  \/ ConsoleEmit \/ RelayWrite

ConsoleSpec == OneShotInit /\ [][ConsoleNext]_vars

\* page.on("dialog", ...) of line 90 registers a standing listener: it is
\* still attached after it has handled an event.
DialogListenerStays_Once(attached) == FALSE

DialogListenerStays(attached) == attached

\* The page's script opens a native dialog (alert, confirm or prompt), which
\* blocks it until the dialog is closed.
DialogOpens ==
  /\ failsOnPageError # "unset" /\ browser = "launched" /\ page # "crashed"
  /\ dialog = "none" /\ dialogsOpened < MaxDialogs
  /\ dialog' = "open"
  /\ dialogsOpened' = dialogsOpened + 1
  /\ UNCHANGED << keepOpen, runVars, closeVars, resVars, buildVars, devMap, watching,
                  pageVars, lastResponse, dupVars, staticVars, consoleVars, relayHooked,
                  dialogHandler, dialogsDismissed >>

\* The 'dialog' listener (lines 90-92): dialog.dismiss() closes the dialog; on
\* a page that is gone it rejects, and the rejection is caught and logged.
DialogEvent ==
  /\ dialog = "open" /\ dialogHandler
  /\ dialog' = "none"
  /\ dialogsDismissed' = IF browser = "launched" /\ page # "crashed"
                           THEN dialogsDismissed + 1 ELSE dialogsDismissed
  /\ dialogHandler' = DialogListenerStays(dialogHandler)
  /\ UNCHANGED << keepOpen, runVars, closeVars, resVars, buildVars, devMap, watching,
                  pageVars, lastResponse, dupVars, staticVars, consoleVars, relayHooked,
                  dialogsOpened >>

\* The one-shot run of a page that opens dialogs.  Fairness: the event loop
\* delivers a pending 'dialog' event, and mocha ends a run that nothing blocks.
DialogNext ==
  \/ BuildOnce
  \/ Listen \/ Launch \/ NewContext \/ NewPage
  \/ GotoResolves \/ GotoRejects
  \/ PageError \/ Crash
  \/ HarnessTestEnd \/ HarnessFail \/ HarnessEnd
  \/ WaitForFunctionResolves \/ WaitForFunctionRejects \/ Evaluate
  \/ Finally \/ ServerCloseEvent \/ BrowserCloseDone \/ TeardownDone
  \/ DialogOpens \/ DialogEvent

DialogLive ==
  /\ OneShotInit /\ [][DialogNext]_vars
  /\ WF_vars(DialogEvent) /\ WF_vars(HarnessEnd)

\* The DOMContentLoaded handler's first call, duplicateTests(mocha.suite,
\* iterate) (line 248), on any suite tree and any repeat count >= 1.
DupInit ==
  /\ RunInit /\ ~keepOpen /\ StaticIdle /\ ConsoleIdle /\ DialogIdle
  /\ dupSuite \in RootSuites
  /\ dupIterate \in 1 .. MaxIterate
  /\ dupResult = dupSuite
  /\ dupDone = FALSE

DuplicateTests ==
  /\ ~dupDone
  /\ dupResult' = duplicateTests(dupSuite, dupIterate)
  /\ dupDone' = TRUE
  /\ UNCHANGED << keepOpen, runVars, closeVars, resVars, buildVars, devMap, watching,
                  pageVars, lastResponse, dupSuite, dupIterate, staticVars,
                  consoleVars, relayHooked, dialogVars, dialogHandler >>

DupSpec == DupInit /\ [][DuplicateTests]_vars

\* The whole app in front of one build's map, for any files in the working
\* directory and in the mocha package.
ServeInit ==
  /\ RunInit /\ ~keepOpen /\ DupIdle /\ ConsoleIdle /\ DialogIdle
  /\ workDirFiles \in SUBSET WorkDirCandidates
  /\ mochaFiles \in SUBSET MochaAssets
  /\ routed = NoRoute

AppRequest ==
  /\ server = "listening"
  /\ \E p \in AppPaths :
       routed' = [path |-> p, from |-> Route(maps[devMap], workDirFiles, mochaFiles, p)]
  /\ UNCHANGED << keepOpen, runVars, closeVars, resVars, buildVars, devMap, watching,
                  pageVars, lastResponse, dupVars, workDirFiles, mochaFiles,
                  consoleVars, relayHooked, dialogVars, dialogHandler >>

ServeNext == BuildOnce \/ Listen \/ AppRequest

ServeSpec == ServeInit /\ [][ServeNext]_vars

Settled  == pc = "settled"

InFinally == pc \in {"finally", "teardown", "settled"}
Closers   == {"server", "browser"}

\* ------------------------------------------------------------------ C1
\* C1: runTests resolves exactly when page.evaluate returned a failed count
\* of zero (and then no fatal signal had won the race); when it returned
\* N > 0 runTests rejects with the summary error naming N, which is not the
\* error of a fatal signal.
C1_ResolvesIffZeroFailed ==
  /\ Settled => ((outcome = Ok) <=> (observedFailed = 0))
  /\ (Settled /\ outcome = Ok) => fatalInRace = "none"
  /\ (InFinally /\ observedFailed > 0) =>
        /\ outcome = [kind |-> "TestsFailed", n |-> observedFailed]
        /\ outcome \notin {Err("pageerror"), Err("crash")}

C1_Witness ==
  /\ Settled /\ observedFailed > 0
  /\ outcome = [kind |-> "TestsFailed", n |-> observedFailed]

\* ------------------------------------------------------------------ C2
\* C2: once a fatal signal has fired while runTests awaits one of its two
\* races, runTests is no longer waiting and its error is that of the first
\* such signal, whether or not the harness has set finished.
C2_FatalRejectsAtOnce ==
  fatalInRace # "none" => (InFinally /\ outcome = Err(fatalInRace))

C2_Witness ==
  /\ Settled /\ fatalInRace = "pageerror" /\ fired = {"pageerror", "crash"}
  /\ ~mochaStatus.finished /\ outcome = Err("pageerror")

\* ------------------------------------------------------------------ C3
\* C3: no teardown action is ever invoked twice, none is invoked before the
\* finally block or in keep-open mode, and in non-keep-open mode the finally
\* block has invoked every registered teardown action exactly once,
\* whichever way the try block was left.
C3_TeardownExactlyOnce ==
  /\ \A c \in Closers : closeCalls[c] <= 1
  /\ (keepOpen \/ pc \notin {"teardown", "settled"}) =>
        \A c \in Closers : closeCalls[c] = 0
  /\ (~keepOpen /\ pc \in {"teardown", "settled"}) =>
        \A c \in Closers : closeCalls[c] = IF c \in registered THEN 1 ELSE 0

C3_Witness ==
  /\ ~keepOpen /\ Settled /\ outcome # Ok
  /\ registered = Closers /\ \A c \in Closers : closeCalls[c] = 1

\* ------------------------------------------------------------------ C4
\* C4: in a one-shot run, when runTests has settled the server is closed (or
\* was never bound) and the browser is closed (or was never launched); while
\* teardown is awaited every registered action has already been started; and
\* a run that reaches the finally block eventually settles.
C4_TeardownClosesAll ==
  /\ [](Settled => (server \in {"none", "closed"} /\ browser \in {"none", "closed"}))
  /\ [](pc = "teardown" => \A c \in registered : closeCalls[c] = 1)
  /\ ((pc = "finally") ~> Settled)

C4_Witness ==
  pc = "teardown" /\ server = "closing" /\ conn /\ browser = "closing"

\* ------------------------------------------------------------------ C5
\* C5: in a one-shot run whose build reported errors, nothing was bound,
\* launched or registered, there was exactly one build, and the run ends
\* with the build error.
C5_BuildErrorAcquiresNothing ==
  (~keepOpen /\ firstBuildFailed) =>
     /\ server = "none" /\ browser = "none" /\ registered = {}
     /\ buildCount = 1
     /\ InFinally /\ outcome = Err("BuildError")

C5_Witness == ~keepOpen /\ firstBuildFailed /\ Settled

\* ------------------------------------------------------------------ C6
\* C6: a build completion that reports errors, or hands over no files (one
\* that does not become the last good build), leaves every map, and so every
\* response of the server, as it was.
C6_FailedBuildKeepsMap ==
  [][ (buildCount' # buildCount /\ lastGood' # buildCount') =>
        /\ maps' = maps /\ buildFilesMap' = buildFilesMap
        /\ \A p \in RequestPaths :
             Serve(maps'[buildFilesMap'], p) = Serve(maps[buildFilesMap], p) ]_vars

C6_Witness ==
  /\ buildCount >= 2 /\ lastGood = buildCount - 1
  /\ MapHas(maps[buildFilesMap], HarnessPath)

\* ------------------------------------------------------------------ C7
\* C7: no map holds /tests.html, the server answers it from the map, and the
\* page has loaded the harness, only if some build completed with files and
\* without errors.
C7_HarnessOnlyAfterGoodBuild ==
  /\ \A i \in MapIds : MapHas(maps[i], HarnessPath) => lastGood > 0
  /\ Serve(maps[buildFilesMap], HarnessPath).status = 200 => lastGood > 0
  /\ (lastResponse.path = HarnessPath /\ lastResponse.from = "map") => lastGood > 0
  /\ page = "harness" => lastGood > 0

C7_Witness ==
  /\ keepOpen /\ firstBuildFailed /\ lastGood = 0 /\ server = "listening"
  /\ devMap # 0 /\ ~MapHas(maps[devMap], HarnessPath)

\* ------------------------------------------------------------------ C8
\* C8: across every step, for every path answered from the map before and
\* after it, the ETag differs exactly when the served text differs.
C8_ETagChangesIffContent ==
  [][ \A p \in RequestPaths :
        LET old == Serve(maps[buildFilesMap], p)
            new == Serve(maps'[buildFilesMap'], p)
        IN  (old.from = "map" /\ new.from = "map") =>
              ((new.etag # old.etag) <=> (new.text # old.text)) ]_vars

\* ------------------------------------------------------------------ C9
\* C9: whenever the map is not empty it holds the harness page and all its
\* records come from the last build that passed the guard; every response
\* answered from the map was read from such a map.
MapConsistent(m) ==
  m = EmptyMap \/ (MapHas(m, HarnessPath) /\ \A q \in DOMAIN m : m[q].build = lastGood)

C9_ResponsesFromOneBuild ==
  /\ MapConsistent(maps[buildFilesMap])
  /\ lastResponse.from = "map" =>
        /\ lastResponse.mapBuilds = {lastResponse.build}
        /\ lastResponse.mapHasHarness
        /\ lastResponse.build \in 1 .. lastGood

C9_Witness ==
  /\ lastResponse.from = "map" /\ lastResponse.build >= 2
  /\ lastResponse.path = "/tests.js"

\* ----------------------------------------------------------------- C10
\* C10 as stated: a reader that holds the map (the middleware) sees the same
\* contents after any step as before it.
C10_ReaderKeepsPreviousBuild ==
  [][ (devMap # 0 /\ devMap' = devMap) => maps'[devMap] = maps[devMap] ]_vars

\* C10 amended: the completion handler is the only writer and writes the one
\* Map object in place; the reference is never rebound, so the middleware
\* holds the very object the handler writes and, after a good rebuild, sees
\* the complete contents of the new build.
C10_WritesInPlace ==
  [][ /\ buildFilesMap' = buildFilesMap
      /\ \A i \in MapIds \ {buildFilesMap} : maps'[i] = maps[i]
      /\ maps' # maps => buildCount' = buildCount + 1
      /\ devMap' # 0 => devMap' = buildFilesMap'
      /\ (devMap # 0 /\ devMap' = devMap /\ lastGood' # lastGood) =>
            /\ MapHas(maps'[devMap], HarnessPath)
            /\ \A q \in DOMAIN maps'[devMap] : maps'[devMap][q].build = lastGood' ]_vars

C10_Witness ==
  /\ devMap # 0 /\ lastResponse.from = "map" /\ lastResponse.build = 1
  /\ lastGood = 2 /\ \A q \in DOMAIN maps[devMap] : maps[devMap][q].build = 2
  /\ MapHas(maps[devMap], HarnessPath)

\* ----------------------------------------------------------------- C11
\* C11: after duplicateTests(suite, n), n >= 1, every suite of the tree has
\* n units per original test, the units of the i-th original test being the
\* i-th block of n, and the same child suites in the same order, to any
\* depth; for n = 1 the tree is unchanged.
RECURSIVE Duplicated(_, _, _)
Duplicated(orig, res, n) ==
  /\ Len(res.tests) = n * Len(orig.tests)
  /\ \A i \in 1 .. Len(res.tests) : res.tests[i] = orig.tests[((i - 1) \div n) + 1]
  /\ Len(res.suites) = Len(orig.suites)
  /\ \A j \in 1 .. Len(orig.suites) : Duplicated(orig.suites[j], res.suites[j], n)

C11_DuplicateTests ==
  dupDone => /\ Duplicated(dupSuite, dupResult, dupIterate)
             /\ (dupIterate = 1 => dupResult = dupSuite)

C11_Witness ==
  /\ dupDone /\ dupIterate >= 2
  /\ Len(dupSuite.tests) = 2 /\ Len(dupSuite.suites) = 2
  /\ Len(dupSuite.suites[1].suites) >= 1
  /\ Len(dupSuite.suites[1].suites[1].tests) = 2
  /\ Len(dupResult.suites[1].suites[1].tests) = 2 * dupIterate

\* ----------------------------------------------------------------- C12
\* C12 as stated: in keep-open mode runTests never waits on the finished
\* flag and never rejects for a failed count or a fatal signal.
C12_RaceSkippedInWatch ==
  keepOpen => /\ pc \notin {"waitFinished", "evaluate"}
              /\ outcome.kind \notin {"TestsFailed", "pageerror", "crash"}

\* C12 amended: in keep-open mode runTests runs the same race: it resolves
\* only after reading a failed count of zero, rejects with the summary error
\* for a larger count and with the signal's error when a fatal signal fires
\* during the race; only the teardown is skipped, so what was started stays.
C12_WatchRunsTheRace ==
  keepOpen =>
    /\ (Settled /\ outcome = Ok) => observedFailed = 0
    /\ (InFinally /\ observedFailed > 0) =>
          outcome = [kind |-> "TestsFailed", n |-> observedFailed]
    /\ fatalInRace # "none" => outcome = Err(fatalInRace)
    /\ server \in {"none", "listening"} /\ browser \in {"none", "launched"}

C12_Witness ==
  /\ keepOpen /\ Settled /\ outcome.kind = "TestsFailed"
  /\ server = "listening" /\ browser = "launched"

\* ----------------------------------------------------------------- C13
\* C13 as stated: in keep-open mode the list of teardown actions stays empty.
C13_HandleEmptyInWatch ==
  keepOpen => (closables = << >> /\ registered = {})

\* C13 amended: in keep-open mode a teardown action is registered for the
\* server and for the browser as each is acquired; the list is never emptied
\* and none of its actions is ever invoked.
C13_WatchRegistersNeverCloses ==
  keepOpen =>
    /\ ("server" \in Invoked(closables)) <=> (server # "none")
    /\ ("browser" \in Invoked(closables)) <=> (browser # "none")
    /\ Invoked(closables) = registered
    /\ \A c \in Closers : closeCalls[c] = 0

C13_Witness ==
  keepOpen /\ Settled /\ closables = << "server", "browser" >>

\* ----------------------------------------------------------------- C14
\* C14 as stated: map record, else 204 for the favicon, else the working
\* directory's file, and the mocha package's file only when the working
\* directory has none.
InMap(p) == devMap # 0 /\ MapHas(maps[devMap], p)

C14_WorkDirBeforeMocha ==
  routed.path # "" =>
    LET p == routed.path
    IN  routed.from =
          IF InMap(p) THEN "map"
          ELSE IF p = FaviconPath THEN "favicon"
          ELSE IF p \in workDirFiles THEN "workdir"
          ELSE IF p \in MountPaths /\ MountRel(p) \in mochaFiles THEN "mocha"
          ELSE "notfound"

\* C14 amended: map record, else 204 for the favicon, else for a path under
\* /mocha the mocha package's file if it has one, else the working
\* directory's file if it has one, else 404.
C14_MochaBeforeWorkDir ==
  routed.path # "" =>
    LET p       == routed.path
        handled == InMap(p) \/ p = FaviconPath
        inMocha == p \in MountPaths /\ MountRel(p) \in mochaFiles
    IN  /\ (routed.from = "map") <=> InMap(p)
        /\ (routed.from = "favicon") <=> (~InMap(p) /\ p = FaviconPath)
        /\ (routed.from = "mocha") <=> (~handled /\ inMocha)
        /\ (routed.from = "workdir") <=> (~handled /\ ~inMocha /\ p \in workDirFiles)
        /\ (routed.from = "notfound") <=> (~handled /\ ~inMocha /\ p \notin workDirFiles)

C14_Witness ==
  /\ routed = [path |-> "/mocha/mocha.js", from |-> "mocha"]
  /\ "/mocha/mocha.js" \in workDirFiles

\* ----------------------------------------------------------------- C15
\* C15: in watch mode the coordinator leaves its wait exactly at the first
\* build completion, failed or not, and the server starts only after it;
\* a later completion changes nothing of the coordinator (position, outcome,
\* server, browser, handle), and a later good one leaves the served map
\* holding that build's records only.
C15_WaitsForFirstCompletionOnly ==
  [][ keepOpen =>
        /\ (buildCount = 0 /\ buildCount' = 1) =>
              (pc = "awaitBuildEnd" /\ pc' = "listen")
        /\ (pc = "awaitBuildEnd" /\ pc' # pc) => (buildCount = 0 /\ buildCount' = 1)
        /\ (server = "none" /\ server' # "none") => buildCount >= 1
        /\ (buildCount >= 1 /\ buildCount' # buildCount) =>
              /\ pc' = pc /\ outcome' = outcome
              /\ server' = server /\ browser' = browser /\ closables' = closables
              /\ devMap' = devMap /\ buildFilesMap' = buildFilesMap
              /\ lastGood' = buildCount' =>
                    /\ MapHas(maps'[buildFilesMap'], HarnessPath)
                    /\ \A q \in DOMAIN maps'[buildFilesMap'] :
                         maps'[buildFilesMap'][q].build = buildCount' ]_vars

C15_Witness ==
  /\ keepOpen /\ firstBuildFailed /\ server = "listening"
  /\ buildCount = 2 /\ lastGood = 2
  /\ devMap = buildFilesMap /\ MapHas(maps[devMap], HarnessPath)

\* ----------------------------------------------------------------- C16
\* C16: the output holds the page's messages in the order of their emission,
\* with none skipped before it: while the relay is enabled, output followed by
\* the relay's queue is exactly what the page has emitted, so the relay was
\* attached before the first message; once a page error or crash has fired
\* the relay is disabled and the output never grows again.
IsPrefix(a, b) == Len(a) <= Len(b) /\ a = SubSeq(b, 1, Len(a))

C16_ConsoleOrderAndUnhook ==
  /\ [] /\ IsPrefix(consoleWritten, consoleEmitted)
        /\ relayHooked => consoleWritten \o consoleQueue = consoleEmitted
        /\ (consoleEmitted # << >> /\ fired = {}) => relayHooked
        /\ fired # {} => ~relayHooked
  /\ [][ (fired' # {}) => consoleWritten' = consoleWritten ]_vars

C16_Witness ==
  /\ fired # {} /\ consoleWritten = << 1, 2 >> /\ consoleEmitted = << 1, 2, 3 >>

\* ----------------------------------------------------------------- C17
\* C17: completed and failed never decrease, finished goes from false to
\* true once and nothing of the status changes after that; the driver moves
\* on to read failed only when finished is true, so the count it read, and
\* the count a "tests failed" rejection carries, is the final value of failed.
C17_StatusMonotoneAndFinalRead ==
  /\ [] /\ pc = "evaluate" => mochaStatus.finished
        /\ observedFailed >= 0 =>
              /\ mochaStatus.finished
              /\ observedFailed = mochaStatus.failed
        /\ outcome.kind = "TestsFailed" => outcome.n = mochaStatus.failed
  /\ [][ /\ mochaStatus'.completed >= mochaStatus.completed
         /\ mochaStatus'.failed >= mochaStatus.failed
         /\ mochaStatus.finished => mochaStatus' = mochaStatus ]_vars

C17_Witness ==
  /\ Settled /\ observedFailed = 1
  /\ mochaStatus = [completed |-> 1, failed |-> 1, finished |-> TRUE]

\* ----------------------------------------------------------------- C18
CallIndex(c) == CHOOSE i \in 1 .. Len(harnessCalls) : harnessCalls[i] = c

Listeners == {"on:test end", "on:fail", "on:end"}

\* C18 as stated: every listener is attached before run is called.
C18_ListenersBeforeRun ==
  harnessCalls # << >> =>
    \A l \in Listeners : Called(l) /\ Called("run") /\ CallIndex(l) < CallIndex("run")

\* C18 amended: the handler runs once, when the harness document has loaded;
\* it calls run first (after duplicateTests) and attaches the three listeners
\* to the returned runner within the same call, and the status changes (an
\* event of the run is handled) only in states where all three are attached.
C18_ListenersAttachedInSameTask ==
  /\ [] (harnessCalls # << >> =>
           /\ Called("duplicateTests") /\ Called("run")
           /\ CallIndex("duplicateTests") < CallIndex("run")
           /\ \A l \in Listeners : Called(l) /\ CallIndex("run") < CallIndex(l))
  /\ [][ /\ harnessCalls' # harnessCalls =>
              (harnessCalls = << >> /\ pc = "goto" /\ page' = "harness")
         /\ mochaStatus' # mochaStatus =>
              (\A l \in Listeners : Called(l)) /\ page = "harness" ]_vars

C18_Witness ==
  /\ Called("run") /\ mochaStatus.finished /\ mochaStatus.completed = 1

\* ----------------------------------------------------------------- C19
Navigated == pc \in {"waitFinished", "evaluate"}

FatalOutcome == outcome.kind \in {"pageerror", "crash"}

LinksCss(rec) == rec.text.kind = "html" /\ rec.text.v = 1

\* C20: in a map that a build has filled, the harness page is the one made by
\* the last good build, it links tests.css exactly if the map holds
\* /tests.css, and a /tests.css held is that same build's; after a good
\* build without a stylesheet the map holds none and the page links none.
C20_CssLinkedIffInSameBuild ==
  LET m == maps[buildFilesMap]
  IN  m # EmptyMap =>
        /\ MapHas(m, HarnessPath) /\ m[HarnessPath].build = lastGood
        /\ LinksCss(m[HarnessPath]) <=> MapHas(m, "/tests.css")
        /\ MapHas(m, "/tests.css") => m["/tests.css"].build = lastGood

C20_Witness ==
  /\ lastGood = 2
  /\ lastResponse.from = "map" /\ lastResponse.path = "/tests.css"
  /\ lastResponse.build = 1
  /\ ~MapHas(maps[buildFilesMap], "/tests.css")
  /\ ~LinksCss(maps[buildFilesMap][HarnessPath])

\* ----------------------------------------------------------------- C21
\* C21: the dialog listener is attached before any dialog can open; every
\* dialog opened on a page that is still there has been dismissed or is the
\* one open now, and an open dialog is eventually closed; opening and
\* dismissing a dialog changes neither the run's position and outcome nor the
\* fatal signals nor the harness status, and a harness page still reaches
\* finished unless a fatal signal fires.
C21_DialogsDismissedNotFatal ==
  /\ [] /\ dialogsOpened > 0 => dialogHandler
        /\ (browser = "launched" /\ page # "crashed") =>
              dialogsOpened = dialogsDismissed + (IF dialog = "open" THEN 1 ELSE 0)
  /\ [][ (dialog' # dialog) =>
           /\ pc' = pc /\ outcome' = outcome
           /\ fired' = fired /\ failsOnPageError' = failsOnPageError
           /\ mochaStatus' = mochaStatus /\ page' = page ]_vars
  /\ (dialog = "open") ~> (dialog = "none")
  /\ (page = "harness") ~> (mochaStatus.finished \/ fired # {})

C21_Witness ==
  /\ Settled /\ outcome = Ok /\ mochaStatus.finished
  /\ dialogsOpened = 2 /\ dialogsDismissed = 2

====
